---- MODULE Spec2Model ----
(***************************************************************************)
(* Model of Evader_agent.py: the request dispatcher                        *)
(* (GameAgent._make_request), the per-tick behaviour (GameAgent.step and   *)
(* the action methods it calls) and the session protocol of main().        *)
(*                                                                         *)
(* Time is counted in tenths of a second (0.1 s = 1), so 0.5 s = 5,        *)
(* RATE_LIMIT_DELAY = 6, RETRY_DELAY = 10, FIRE_INTERVAL = 20, 6 s = 60.   *)
(* Statements of the program take no time; time passes only while the      *)
(* process is blocked in time.sleep or in an HTTP request: the actions that *)
(* end a sleep or a request move the clock (Elapse).                        *)
(*                                                                         *)
(* The server's answer to a request is one of Outcomes.  The 2xx answers   *)
(* carry a JSON body (a truthy value such as a non-empty object, a falsy   *)
(* value other than null such as the empty object {}, or null) or a body    *)
(* that is not JSON (200 'OK', 204 with no body).  For the latter           *)
(* response.json() raises requests.exceptions.JSONDecodeError, which is a   *)
(* RequestException (requests 2.27 and later) whose response attribute is   *)
(* None: the except clause of line 43 catches it.  A body that makes        *)
(* json() raise another exception (ValueError, RecursionError) ends the     *)
(* call by that exception, and so does an exception other than              *)
(* RequestException raised by requests.post itself.  A 3xx answer is        *)
(* followed by requests inside line 39.                                     *)
(*                                                                         *)
(* current_direction is written once by __init__ and never read: it is     *)
(* left out.  The user presses Ctrl+C at most once.                        *)
(***************************************************************************)
EXTENDS Integers, Sequences, FiniteSets, TLC

\* ---------------------------------------------------------------- constants
MAX_RETRIES == 3
RETRY_DELAY == 10
FIRE_INTERVAL == 20
RATE_LIMIT_DELAY == 6
MOVE_DELAY == 1
\* the 0.5 s of _make_request's gate
THROTTLE == 5
\* the 6 s of step's shield condition
SHIELD_AFTER == 60
\* the 0.1 s main sleeps between two steps
LOOP_DELAY == 1
\* time.time() when the agent is constructed: large against every delay, as
\* the epoch clock is against the initial timestamps 0
Epoch == 1000
\* the redirects requests.post follows before it raises TooManyRedirects
\* (requests' default max_redirects)
REDIRECT_LIMIT == 30

\* ------------------------------------------------------------------- bounds
\* the run is followed for Horizon tenths of a second after construction
Horizon == 76
\* a time.sleep(d) lasts d or longer and an HTTP request takes 0 or longer:
\* over the run at most MaxSlack tenths of a second pass beyond these minima
\* (0: every delay beyond the minimum stays below the clock's tenth of a second)
MaxSlack == 0
\* a KeyboardInterrupt arrives, if at all, in the first InterruptBy tenths of
\* a second after construction: late enough to fall into the shield request
\* of a tick that begins more than 6 s after the start
InterruptBy == 63
\* requests.post follows at most MaxRedirects redirects per call
MaxRedirects == 1

\* ----------------------------------------------------------- server answers
Outcomes == {"ok_truthy", "ok_falsy", "ok_null", "ok_nojson", "ok_raise",
             "http429", "http500", "neterr", "too_many_redirects", "post_raise"}

\* lines 39-40: the request and raise_for_status() raise nothing, so line 41
\* is reached
StatusOk(o) == o \in {"ok_truthy", "ok_falsy", "ok_null", "ok_nojson", "ok_raise"}

\* an exception that is not a RequestException, which the except clause of
\* line 43 does not catch: response.json() raises it at line 42 (ValueError
\* for an integer of 5000 digits, RecursionError for a deeply nested array),
\* or requests.post itself raises it at line 39 (a 3xx answer whose Location
\* header cannot be parsed), before line 41 is reached
Raises(o) == o \in {"ok_raise", "post_raise"}

\* lines 39-42 raise nothing: the status is 2xx and response.json() decodes
\* the body
IsOk(o) == StatusOk(o) /\ o \notin {"ok_nojson", "ok_raise"}

\* the exception carries a Response object (an HTTPError, or the
\* TooManyRedirects of line 39 with the last 3xx answer), not None
HasResponse(o) == o \in {"http429", "http500", "too_many_redirects"}

StatusCode(o) == CASE o = "http429" -> 429
                   [] o = "http500" -> 500
                   [] o = "too_many_redirects" -> 302
                   [] OTHER -> 200

\* bool(e.response): requests.Response.__bool__ returns Response.ok, which
\* is False for every status of 400 and above
ResponseTruthy(o) == HasResponse(o) /\ StatusCode(o) < 400

\* the condition of line 44; retry is True at every call site
RateLimitBranch(o) == HasResponse(o) /\ ResponseTruthy(o) /\ StatusCode(o) = 429 /\ TRUE

\* the kinds of outcome: a 2xx answer with a JSON body, a 2xx answer whose
\* body makes json() raise past the except clause, a 2xx answer whose body
\* does not decode, HTTP 429, any other failure
Class(o) == IF IsOk(o) THEN "ok"
            ELSE IF Raises(o) THEN "raised"
            ELSE IF StatusOk(o) THEN "bad_body"
            ELSE IF HasResponse(o) /\ StatusCode(o) = 429 THEN "rate_limited"
            ELSE "failed"

\* response.json(): the decoded body
Body(o) == CASE o = "ok_truthy" -> "truthy"
             [] o = "ok_falsy" -> "falsy"
             [] OTHER -> "None"

\* `if response:` and `response is not None`
Truthy(r) == r = "truthy"
NotNone(r) == r # "None"

\* -------------------------------------------------------------------- state
VARIABLES
  now,                \* time.time()
  pc,                 \* where main / step stands
  regAttempt,         \* main's loop variable `attempt`
  last_move_time, last_fire_time, last_request_time, start_time,
  shield_used, moves_in_a_row, direction_changed,
  dpc,                \* where the running _make_request call stands
  endpoint,           \* its endpoint argument
  attempt,            \* its loop variable
  response,           \* what it returns
  wake,               \* when the running time.sleep is due to end
  sleepKind,          \* which sleep of _make_request is running
  sentAt,             \* when the last HTTP request left
  hops,               \* redirects followed so far by the running requests.post
  slack,              \* time spent so far in requests and in oversleeping
  \* history, read by the properties only
  sent,               \* HTTP attempts of the running call
  waits,              \* the retry sleeps of the running call, in order
  seen,               \* the outcomes of the running call's attempts, in order
  gap,                \* time between the HTTP request in flight and the one before it
                      \* (capped); -1: none in flight, or none before it
  shieldRequests,     \* HTTP requests sent to the shield endpoint
  shieldTrue,         \* calls of shield() that returned True
  fireGap,            \* time between the last two successful fires (capped), -1: none yet
  called,             \* the endpoints _make_request was called with so far
  unregCalls,         \* calls of _make_request for the unregister endpoint
  registered,         \* some register() has returned True
  regCalls,           \* calls of register() by main
  regSleeps,          \* time.sleep(RETRY_DELAY) of main's registration loop
  interrupted,        \* a KeyboardInterrupt has been raised
  raised,             \* an exception left step() and is pending in main's finally clause
  reached5,           \* a move of this tick brought moves_in_a_row to 5
  coinFlips,          \* evaluations of random.random() < 0.5 in this tick
  moveFailed,         \* the move request of this tick came back falsy
  tickCalls           \* the endpoints of this tick's _make_request calls, in order

dispv == <<dpc, endpoint, attempt, response, wake, sleepKind, sentAt, hops,
           last_request_time, sent, waits, seen, gap, shieldRequests, called,
           unregCalls>>
agentv == <<last_move_time, last_fire_time, start_time, shield_used,
            moves_in_a_row, direction_changed>>
mainv == <<pc, regAttempt, registered, regCalls, regSleeps, interrupted, raised>>
tickv == <<reached5, coinFlips, moveFailed, tickCalls>>
histv == <<shieldTrue, fireGap>>
vars == <<now, slack, dispv, agentv, mainv, tickv, histv>>

Min(a, b) == IF a < b THEN a ELSE b

\* GameAgent.__init__ and the entry of main
Init ==
  /\ now = Epoch /\ slack = 0
  /\ pc = "register"
  /\ regAttempt = 0
  /\ last_move_time = 0 /\ last_fire_time = 0 /\ last_request_time = 0
  /\ start_time = Epoch
  /\ shield_used = FALSE /\ moves_in_a_row = 0 /\ direction_changed = FALSE
  /\ dpc = "idle" /\ endpoint = "none" /\ attempt = 0 /\ response = "None"
  /\ wake = 0 /\ sleepKind = "none" /\ sentAt = 0 /\ hops = 0
  /\ sent = 0 /\ waits = <<>> /\ seen = <<>> /\ gap = -1 /\ shieldRequests = 0
  /\ registered = FALSE /\ regCalls = 0 /\ regSleeps = 0 /\ interrupted = FALSE /\ raised = FALSE
  /\ reached5 = FALSE /\ coinFlips = 0 /\ moveFailed = FALSE
  /\ shieldTrue = 0 /\ fireGap = -1 /\ called = {} /\ unregCalls = 0
  /\ tickCalls = <<>>

\* --------------------------------------------------------------------- time
\* the blocked process goes on at time t or, while slack is left, later
Elapse(t) ==
  \E x \in 0..(MaxSlack - slack) :
    /\ t + x <= Epoch + Horizon
    /\ now' = t + x
    /\ slack' = slack + x

\* ------------------------------------------------------ the request dispatcher
\* lines 31-34: how long the gate sleeps at time t
GateDelay(t, last) == IF t - last < THROTTLE THEN THROTTLE - (t - last) ELSE 0

\* _make_request(endpoint = ep) is entered at time t: lines 31-34
BeginCallAt(t, ep) ==
  /\ endpoint' = ep
  /\ called' = called \cup {ep}
  /\ unregCalls' = IF ep = "unregister" THEN unregCalls + 1 ELSE unregCalls
  /\ attempt' = 0
  /\ response' = "None"
  /\ sent' = 0 /\ waits' = <<>> /\ seen' = <<>> /\ hops' = 0
  /\ IF GateDelay(t, last_request_time) > 0
       THEN dpc' = "sleep" /\ sleepKind' = "gate"
            /\ wake' = t + GateDelay(t, last_request_time)
       ELSE dpc' = "attempt" /\ sleepKind' = "none" /\ wake' = 0
  /\ gap' = -1
  /\ UNCHANGED <<sentAt, last_request_time, shieldRequests>>

BeginCall(ep) == BeginCallAt(now, ep)

\* the caller has taken the return value: no call is running
EndCall(w) ==
  /\ wake' = w
  /\ dpc' = "idle" /\ endpoint' = "none" /\ attempt' = 0 /\ response' = "None"
  /\ sleepKind' = "none" /\ sent' = 0 /\ waits' = <<>> /\ seen' = <<>> /\ hops' = 0
  /\ gap' = -1
  /\ UNCHANGED <<sentAt, last_request_time, shieldRequests, called, unregCalls>>

\* line 39: requests.get / requests.post sends the request
SendRequest ==
  /\ dpc = "attempt"
  /\ dpc' = "inflight"
  /\ sentAt' = now
  /\ sent' = sent + 1
  /\ gap' = IF sentAt = 0 THEN -1 ELSE Min(now - sentAt, THROTTLE)
  /\ shieldRequests' = IF endpoint = "shield" THEN shieldRequests + 1 ELSE shieldRequests
  /\ UNCHANGED <<now, slack, endpoint, attempt, response, wake, sleepKind, hops,
                 last_request_time, waits, seen, called, unregCalls, agentv, mainv,
                 tickv, histv>>

\* lines 43-51: what the except clause does with outcome o at attempt att
AfterFailure(o, att) ==
  IF RateLimitBranch(o)
    THEN [next |-> "sleep", kind |-> "rate_limit", delay |-> RATE_LIMIT_DELAY]
    ELSE IF att < MAX_RETRIES - 1
      THEN [next |-> "sleep", kind |-> "retry", delay |-> RETRY_DELAY]
      ELSE [next |-> "ret", kind |-> "none", delay |-> 0]

\* line 39: the server answers 3xx with a Location header and requests
\* follows the redirect at once, inside the same requests.post, by a
\* further HTTP request; no gate and no sleep lies between the two
Redirect ==
  /\ dpc = "inflight"
  /\ hops < Min(MaxRedirects, REDIRECT_LIMIT)
  /\ Elapse(now)
  /\ hops' = hops + 1
  /\ sentAt' = now'
  /\ gap' = Min(now' - sentAt, THROTTLE)
  /\ UNCHANGED <<dpc, endpoint, attempt, response, wake, sleepKind,
                 last_request_time, sent, waits, seen, shieldRequests, called,
                 unregCalls, agentv, mainv, tickv, histv>>

\* lines 39-51: the last request of requests.post returns or raises.  Line 41
\* records the time once raise_for_status() has passed, before line 42
\* decodes the body.  TooManyRedirects is raised for the 3xx answer to the
\* request that followed the REDIRECT_LIMIT-th redirect.
Respond ==
  /\ dpc = "inflight"
  /\ Elapse(now)
  /\ hops' = 0 /\ gap' = -1
  /\ \E o \in Outcomes :
       /\ (o = "too_many_redirects") => hops = REDIRECT_LIMIT
       /\ seen' = Append(seen, Class(o))
       /\ last_request_time' = IF StatusOk(o) THEN now' ELSE last_request_time
       /\ IF IsOk(o)
            THEN /\ response' = Body(o)
                 /\ dpc' = "ret"
                 /\ UNCHANGED <<wake, sleepKind, waits>>
            ELSE IF Raises(o)
            THEN /\ response' = "None"
                 /\ dpc' = "raise"
                 /\ UNCHANGED <<wake, sleepKind, waits>>
            ELSE LET a == AfterFailure(o, attempt) IN
                 /\ dpc' = a.next
                 /\ sleepKind' = a.kind
                 /\ wake' = IF a.next = "sleep" THEN now' + a.delay ELSE wake
                 /\ waits' = IF a.next = "sleep" THEN Append(waits, a.delay) ELSE waits
                 /\ response' = "None"
  /\ UNCHANGED <<endpoint, attempt, sentAt, sent, shieldRequests, called,
                 unregCalls, agentv, mainv, tickv, histv>>

\* what follows a finished sleep of kind k at attempt att: the gate (line 34)
\* goes on to the first attempt, the rate-limit sleep (lines 46-47) continues
\* the loop, which ends at line 52 when the attempts are used up, and the
\* retry sleep (lines 50-51) is followed by return None
AfterSleep(k, att) ==
  CASE k = "gate" -> [next |-> "attempt", att |-> att]
    [] k = "rate_limit" ->
         IF att + 1 < MAX_RETRIES THEN [next |-> "attempt", att |-> att + 1]
                                  ELSE [next |-> "ret", att |-> att + 1]
    [] OTHER -> [next |-> "ret", att |-> att]

\* a time.sleep of _make_request ends
SleepDone ==
  /\ dpc = "sleep"
  /\ Elapse(wake)
  /\ LET a == AfterSleep(sleepKind, attempt) IN
       /\ dpc' = a.next
       /\ attempt' = a.att
  /\ sleepKind' = "none" /\ wake' = 0
  /\ UNCHANGED <<endpoint, response, sentAt, hops, last_request_time,
                 sent, waits, seen, gap, shieldRequests, called, unregCalls, agentv,
                 mainv, tickv, histv>>

\* ------------------------------------------------------------------- main
\* lines 137-139 and 55: main calls agent.register()
CallRegister ==
  /\ pc = "register"
  /\ pc' = "call_register"
  /\ regCalls' = regCalls + 1
  /\ BeginCall("register")
  /\ UNCHANGED <<now, slack, regAttempt, registered, interrupted, raised, regSleeps, agentv, tickv, histv>>

\* a sleep after the third failed registration as well
RegRetrySleepsAlways(a) == a <= MAX_RETRIES - 1

\* line 141: whether main sleeps after a failed registration attempt a
RegRetrySleeps(a) == a < MAX_RETRIES - 1

\* main falls into the loop when the registration attempts are used up
ForNextNoReturn(a) == IF a + 1 < MAX_RETRIES THEN "register" ELSE "step"

\* lines 137 and 143-145: the for statement after attempt a has failed: the
\* next attempt, or the else clause and its return
ForNext(a) == IF a + 1 < MAX_RETRIES THEN "register" ELSE "exit"

\* lines 59-62: register()'s return value
RegisterResult(r) == Truthy(r)

\* lines 59-62 and 139-145: register() returns to main
RegisterReturn ==
  /\ pc = "call_register" /\ dpc = "ret"
  /\ registered' = (registered \/ RegisterResult(response))
  /\ IF RegisterResult(response)
       THEN /\ pc' = "step"
            /\ EndCall(0)
            /\ UNCHANGED <<regAttempt, regSleeps>>
       ELSE IF RegRetrySleeps(regAttempt)
         THEN /\ pc' = "reg_sleep"
              /\ EndCall(now + RETRY_DELAY)
              /\ regSleeps' = regSleeps + 1
              /\ UNCHANGED regAttempt
         ELSE /\ pc' = ForNext(regAttempt)
              /\ regAttempt' = IF ForNext(regAttempt) = "register"
                                 THEN regAttempt + 1 ELSE regAttempt
              /\ EndCall(0)
              /\ UNCHANGED regSleeps
  /\ UNCHANGED <<now, slack, regCalls, interrupted, raised, agentv, tickv, histv>>

\* line 142 ends: the for statement goes on
RegSleepDone ==
  /\ pc = "reg_sleep"
  /\ Elapse(wake)
  /\ pc' = ForNext(regAttempt)
  /\ regAttempt' = IF ForNext(regAttempt) = "register" THEN regAttempt + 1 ELSE regAttempt
  /\ UNCHANGED <<registered, interrupted, raised, regCalls, regSleeps, dispv, agentv, tickv, histv>>

\* ------------------------------------------------------------------- step
\* step's call of _make_request for endpoint ep is recorded
Issued(ep) == tickCalls' = Append(tickCalls, ep)

\* the shield condition without the shield_used flag
ShieldDueAgain(used, t, started) == t - started > SHIELD_AFTER

\* line 109: the shield condition at time t
ShieldDue(used, t, started) == ~used /\ t - started > SHIELD_AFTER

\* lines 107-110 and 104: step begins; shield() is called when it is due
StepShield ==
  /\ pc = "step"
  /\ reached5' = FALSE /\ coinFlips' = 0 /\ moveFailed' = FALSE
  /\ IF ShieldDue(shield_used, now, start_time)
       THEN pc' = "call_shield" /\ BeginCall("shield") /\ Issued("shield")
       ELSE pc' = "fire" /\ UNCHANGED <<dispv, tickCalls>>
  /\ UNCHANGED <<now, slack, regAttempt, registered, interrupted, raised, regCalls, regSleeps, agentv, histv>>

\* shield() reports success whatever the dispatcher returned
ShieldResultAlways(r) == TRUE

\* line 105: shield()'s return value
ShieldResult(r) == NotNone(r)

\* lines 105 and 110: shield() returns to step, which goes on to line 111
\* when the value is True and to line 114 otherwise
ShieldReturn ==
  /\ pc = "call_shield" /\ dpc = "ret"
  /\ shieldTrue' = IF ShieldResult(response) THEN shieldTrue + 1 ELSE shieldTrue
  /\ pc' = IF ShieldResult(response) THEN "shield_on" ELSE "fire"
  /\ EndCall(0)
  /\ UNCHANGED <<now, slack, regAttempt, registered, interrupted, raised, regCalls, regSleeps, tickv, fireGap,
                 agentv>>

\* lines 111-112: the activation is printed, then shield_used is set
ShieldActivated ==
  /\ pc = "shield_on"
  /\ shield_used' = TRUE
  /\ pc' = "fire"
  /\ UNCHANGED <<now, slack, regAttempt, registered, interrupted, raised, regCalls, regSleeps, dispv, tickv,
                 histv, last_move_time, last_fire_time, start_time, moves_in_a_row,
                 direction_changed>>

\* fire()'s cooldown measured against MOVE_DELAY
FireReadyMoveDelay(t, last) == ~(t - last < MOVE_DELAY)

\* line 95: fire() goes on to its request at time t
FireReady(t, last) == ~(t - last < FIRE_INTERVAL)

\* lines 114 and 94-97: step calls fire()
StepFire ==
  /\ pc = "fire"
  /\ IF FireReady(now, last_fire_time)
       THEN pc' = "call_fire" /\ BeginCall("fire") /\ Issued("fire")
       ELSE pc' = "move" /\ UNCHANGED <<dispv, tickCalls>>
  /\ UNCHANGED <<now, slack, regAttempt, registered, interrupted, raised, regCalls, regSleeps, agentv,
                 reached5, coinFlips, moveFailed, histv>>

\* lines 98-99: last_fire_time after fire()'s request returned r at time t
FireTime(r, t, last) == IF Truthy(r) THEN t ELSE last

\* lines 98-101: fire() returns; step ignores its value
FireReturn ==
  /\ pc = "call_fire" /\ dpc = "ret"
  /\ last_fire_time' = FireTime(response, now, last_fire_time)
  /\ fireGap' = IF Truthy(response) /\ last_fire_time # 0
                  THEN Min(now - last_fire_time, FIRE_INTERVAL) ELSE fireGap
  /\ pc' = "move"
  /\ EndCall(0)
  /\ UNCHANGED <<now, slack, regAttempt, registered, interrupted, raised, regCalls, regSleeps, tickv, shieldTrue,
                 last_move_time, start_time, shield_used, moves_in_a_row,
                 direction_changed>>

\* line 72: move() goes on to its request at time t
MoveReady(t, last) == ~(t - last < MOVE_DELAY)

\* lines 116-117 and 71-74: step calls move(); when move() returns False at
\* line 73, step goes on to its `not moved` branch
StepMove ==
  /\ pc = "move"
  /\ IF MoveReady(now, last_move_time)
       THEN pc' = "call_move" /\ BeginCall("move") /\ Issued("move")
       ELSE pc' = "not_moved" /\ UNCHANGED <<dispv, tickCalls>>
  /\ UNCHANGED <<now, slack, regAttempt, registered, interrupted, raised, regCalls, regSleeps, agentv,
                 reached5, coinFlips, moveFailed, histv>>

\* line 132: step()'s return value, moved being the value of line 116
StepResult(moved) == TRUE

\* lines 132 and 150-157: step() returns to main's loop, which sleeps (line
\* 153) or breaks, the finally clause then calling unregister()
EndStep(moved) ==
  IF StepResult(moved)
    THEN pc' = "loop_sleep" /\ EndCall(now + LOOP_DELAY)
    ELSE pc' = "call_unregister" /\ BeginCall("unregister")

\* a failed move that leaves the count as it is
MoveFailedCountKept(n) == n

\* line 81: moves_in_a_row after a move that failed
MoveFailedCount(n) == 0

\* the streak condition off by one
StreakCheckLate(n, changed) == n > 5 /\ ~changed

\* line 122: the streak condition
StreakCheck(n, changed) == n >= 5 /\ ~changed

\* lines 75-82, 116-117, 121-122 and 130-132: move() returns to step.  A
\* falsy response resets the streak and step goes on to its `not moved`
\* branch; a truthy one counts the move and step evaluates the streak
\* condition: when it holds step goes on to the coin flip, otherwise the
\* step ends and main sleeps (lines 130-132, 153).
MoveReturn ==
  /\ pc = "call_move" /\ dpc = "ret"
  /\ IF Truthy(response)
       THEN /\ last_move_time' = now
            /\ moves_in_a_row' = moves_in_a_row + 1
            /\ reached5' = (reached5 \/ moves_in_a_row + 1 = 5)
            /\ IF StreakCheck(moves_in_a_row + 1, direction_changed)
                 THEN pc' = "streak" /\ EndCall(0) /\ UNCHANGED direction_changed
                 ELSE EndStep(TRUE) /\ direction_changed' = FALSE
            /\ UNCHANGED moveFailed
       ELSE /\ moveFailed' = TRUE
            /\ moves_in_a_row' = MoveFailedCount(moves_in_a_row)
            /\ pc' = "not_moved" /\ EndCall(0)
            /\ UNCHANGED <<last_move_time, direction_changed, reached5>>
  /\ UNCHANGED <<now, slack, regAttempt, registered, interrupted, raised, regCalls, regSleeps,
                 coinFlips, tickCalls, last_fire_time, start_time, shield_used, histv>>

\* lines 118-120 and 85: the `not moved` branch picks a turn, prints it and
\* calls rotate()
StepRotateWall ==
  /\ pc = "not_moved"
  /\ pc' = "call_rotate_wall" /\ BeginCall("rotate") /\ Issued("rotate")
  /\ UNCHANGED <<now, slack, regAttempt, registered, interrupted, raised, regCalls, regSleeps, agentv,
                 reached5, coinFlips, moveFailed, histv>>

\* lines 123-132: the coin flip of the streak branch (rotate is TRUE when
\* random.random() < 0.5): rotate() is called (lines 124-126 and 85), or the
\* count is reset, the flag cleared, the step ends and main sleeps (lines
\* 128-132, 153)
StreakFlip ==
  /\ pc = "streak"
  /\ coinFlips' = coinFlips + 1
  /\ \E rotate \in BOOLEAN :
       IF rotate
         THEN /\ pc' = "call_rotate_streak"
              /\ BeginCall("rotate") /\ Issued("rotate")
              /\ UNCHANGED <<moves_in_a_row, direction_changed>>
         ELSE /\ EndStep(TRUE)
              /\ UNCHANGED tickCalls
              /\ moves_in_a_row' = 0
              /\ direction_changed' = FALSE
  /\ UNCHANGED <<now, slack, regAttempt, registered, interrupted, raised, regCalls, regSleeps,
                 reached5, moveFailed,
                 last_move_time, last_fire_time, start_time, shield_used, histv>>

\* line 92: rotate()'s return value
RotateResult(r) == NotNone(r)

\* lines 89-91: rotate()'s effect on (moves_in_a_row, direction_changed)
RotateEffect(r, n, changed) ==
  IF Truthy(r) THEN [n |-> 0, changed |-> TRUE] ELSE [n |-> n, changed |-> changed]

\* a rotate() of the `not moved` branch that changed nothing is called again
RotateWallReturnAgain ==
  /\ pc = "call_rotate_wall" /\ dpc = "ret"
  /\ LET e == RotateEffect(response, moves_in_a_row, direction_changed) IN
       /\ moves_in_a_row' = e.n
       /\ direction_changed' = e.changed
  /\ IF Truthy(response)
       THEN EndStep(FALSE) /\ UNCHANGED tickCalls
       ELSE pc' = "call_rotate_wall" /\ BeginCall("rotate") /\ Issued("rotate")
  /\ UNCHANGED <<now, slack, regAttempt, registered, interrupted, raised, regCalls, regSleeps,
                 reached5, coinFlips, moveFailed,
                 last_move_time, last_fire_time, start_time, shield_used, histv>>

\* lines 89-92, 120 and 132: the rotate() of the `not moved` branch returns;
\* the step ends and main sleeps (line 153)
RotateWallReturn ==
  /\ pc = "call_rotate_wall" /\ dpc = "ret"
  /\ LET e == RotateEffect(response, moves_in_a_row, direction_changed) IN
       /\ moves_in_a_row' = e.n
       /\ direction_changed' = e.changed
  /\ EndStep(FALSE)
  /\ UNCHANGED <<now, slack, regAttempt, registered, interrupted, raised, regCalls, regSleeps, tickv,
                 last_move_time, last_fire_time, start_time, shield_used, histv>>

\* the streak branch clears the flag and leaves the count to rotate()
StreakEndKeepsCount(e) == [n |-> e.n, changed |-> FALSE]

\* lines 129-130: the end of the streak branch, after rotate()'s effect e
StreakEnd(e) == [n |-> 0, changed |-> FALSE]

\* lines 89-92 and 126-132: the rotate() of the streak branch returns
RotateStreakReturn ==
  /\ pc = "call_rotate_streak" /\ dpc = "ret"
  /\ LET e == StreakEnd(RotateEffect(response, moves_in_a_row, direction_changed)) IN
       /\ moves_in_a_row' = e.n
       /\ direction_changed' = e.changed
  /\ EndStep(TRUE)
  /\ UNCHANGED <<now, slack, regAttempt, registered, interrupted, raised, regCalls, regSleeps, tickv,
                 last_move_time, last_fire_time, start_time, shield_used, histv>>

\* lines 149-153: the sleep between two steps ends and the next step begins
LoopSleepDone ==
  /\ pc = "loop_sleep"
  /\ Elapse(wake)
  /\ pc' = "step"
  /\ tickCalls' = <<>>
  /\ UNCHANGED <<regAttempt, registered, interrupted, raised, regCalls, regSleeps, dispv, agentv,
                 reached5, coinFlips, moveFailed, histv>>

\* ------------------------------------------------------- interrupt and exit
\* the program points inside main's try block
InLoop == pc \in {"step", "call_shield", "shield_on", "fire", "call_fire", "move",
                  "call_move", "not_moved", "streak", "call_rotate_wall",
                  "call_rotate_streak", "loop_sleep"}

\* the latest time at which the statement the process stands at can still be
\* interrupted: the end of a running sleep, the return of a running request
InterruptibleUntil ==
  IF dpc = "sleep" \/ pc \in {"loop_sleep", "reg_sleep"} THEN wake
  ELSE IF dpc = "inflight" THEN now + (MaxSlack - slack)
  ELSE now

\* an exception leaves step(): the history of the running tick ends with it
AbortTick ==
  reached5' = FALSE /\ coinFlips' = 0 /\ moveFailed' = FALSE /\ tickCalls' = <<>>

\* the KeyboardInterrupt arrives at time t of the statement the process
\* stands at
InterruptAt(t) ==
  /\ t <= Epoch + InterruptBy
  /\ now' = t
  /\ slack' = IF dpc = "inflight" THEN slack + (t - now) ELSE slack

\* lines 154-157 and 65: KeyboardInterrupt inside the try block, at any point
\* of the step and at any time t of a running sleep or request; the finally
\* clause calls unregister().  While an exception is on its way out of
\* step() the interrupt is not raised inside the try block (InterruptUncaught).
Interrupt ==
  /\ InLoop /\ dpc # "raise"
  /\ \E t \in now..InterruptibleUntil :
       /\ InterruptAt(t)
       /\ BeginCallAt(t, "unregister")
  /\ pc' = "call_unregister"
  /\ interrupted' = TRUE
  /\ AbortTick
  /\ UNCHANGED <<regAttempt, registered, raised, regCalls, regSleeps, agentv, histv>>

\* line 42 and lines 147-157: the exception of response.json() leaves
\* _make_request, the action method and its caller.  Inside main's try block
\* the finally clause calls unregister() while the exception is pending;
\* in the registration loop and in the finally clause itself nothing stands
\* in its way and the process ends with a traceback.
RaiseToMain ==
  /\ dpc = "raise"
  /\ IF InLoop
       THEN pc' = "call_unregister" /\ BeginCall("unregister") /\ raised' = TRUE
       ELSE pc' = "crashed" /\ EndCall(0) /\ UNCHANGED raised
  /\ AbortTick
  /\ UNCHANGED <<now, slack, regAttempt, registered, interrupted, regCalls, regSleeps,
                 agentv, histv>>

\* line 157: how main ends after unregister(): a pending exception goes on
MainEnd(pending) == IF pending THEN "crashed" ELSE "done"

\* lines 66-69 and 157: unregister() returns, its value is dropped and main ends
UnregisterReturn ==
  /\ pc = "call_unregister" /\ dpc = "ret"
  /\ pc' = MainEnd(raised)
  /\ EndCall(0)
  /\ UNCHANGED <<now, slack, regAttempt, registered, interrupted, raised, regCalls, regSleeps, agentv, tickv, histv>>

\* KeyboardInterrupt outside the try block: nothing catches it and the
\* process ends at once.  This is the registration loop (lines 137-142), the
\* unregister() of the finally clause that an escaped exception has entered
\* (line 157), and the interrupt that arrives while an exception is on its
\* way out of step(): it is raised on entry to the finally clause's
\* unregister(), before any request is made.
InterruptUncaught ==
  /\ \/ pc \in {"register", "call_register", "reg_sleep"}
     \/ InLoop /\ dpc = "raise"
     \/ pc = "call_unregister" /\ ~interrupted
  /\ \E t \in now..InterruptibleUntil : InterruptAt(t)
  /\ pc' = "killed"
  /\ interrupted' = TRUE
  /\ EndCall(0)
  /\ AbortTick
  /\ UNCHANGED <<regAttempt, registered, raised, regCalls, regSleeps, agentv, histv>>

Next ==
  \/ SendRequest \/ Redirect \/ Respond \/ SleepDone \/ RaiseToMain
  \/ CallRegister \/ RegisterReturn \/ RegSleepDone
  \/ StepShield \/ ShieldReturn \/ ShieldActivated \/ StepFire \/ FireReturn
  \/ StepMove \/ MoveReturn \/ StepRotateWall \/ StreakFlip
  \/ RotateWallReturn \/ RotateStreakReturn
  \/ LoopSleepDone
  \/ Interrupt \/ UnregisterReturn \/ InterruptUncaught

Spec == Init /\ [][Next]_vars

\* ---------------------------------------------------------------- properties
Last(q) == q[Len(q)]

\* a _make_request call is running (entered and not yet returned to its caller)
InCall == dpc \in {"sleep", "attempt", "inflight", "ret"}

\* C1: any two consecutive HTTP requests sent to the server are at least
\* 0.5 s apart, whatever the dispatcher calls and the server's answers.
C1_ThrottleInvariant == gap = -1 \/ gap >= THROTTLE

\* C2: a call whose attempts all fail with a failure other than 429 returns
\* no result after exactly 3 attempts, with a 1 s wait after the first and
\* after the second and none after the third.
C2_ThreeAttemptsOnFailure ==
  (dpc = "ret" /\ seen # <<>> /\ \A i \in 1..Len(seen) : seen[i] = "failed")
    => /\ sent = MAX_RETRIES
       /\ waits = <<RETRY_DELAY, RETRY_DELAY>>
       /\ response = "None"

\* C3: a 429 answer to the first or second attempt of a call is followed by a
\* wait of 0.6 s, never the 1 s generic delay, and by a further attempt, so
\* that a 2xx answer to that attempt is returned.
C3_RateLimitRetried ==
  \A i \in 1..Len(seen) :
    (i < MAX_RETRIES /\ seen[i] = "rate_limited")
      => /\ Len(waits) >= i => waits[i] = RATE_LIMIT_DELAY
         /\ dpc = "ret" => Len(seen) > i

\* C4: a call sends at most 3 HTTP attempts, sleeps at most once per attempt,
\* sends nothing after a successful attempt, and ends only by returning, the
\* body of its successful attempt or no result: it never raises to its
\* caller.
C4_BoundedAttempts ==
  /\ dpc # "raise"
  /\ dpc \in {"idle", "sleep", "attempt", "inflight", "ret"}
  /\ sent <= MAX_RETRIES /\ Len(seen) <= sent /\ Len(waits) <= sent
  /\ \A i \in 1..Len(seen) : seen[i] = "ok" => (i = Len(seen) /\ dpc = "ret")
  /\ dpc = "ret" => /\ sent >= 1
                    /\ response \in {"None", "falsy", "truthy"}
                    /\ response # "None" => Last(seen) = "ok"
                    /\ Last(seen) # "ok" => response = "None"

\* C5 as stated: the shield is requested at most once in the agent's
\* lifetime, failed requests included, and never before more than 6.0 s have
\* passed since the start.
C5_ShieldAtMostOnce ==
  /\ shieldRequests <= 1
  /\ endpoint = "shield" => now - start_time > SHIELD_AFTER

\* C5 as amended: at most one shield request returns a result, no shield
\* request is issued once one has, and none is issued before more than 6.0 s
\* have passed since the start.
C5_ShieldOnceReturned ==
  /\ shieldTrue <= 1
  /\ shield_used => shieldTrue = 1
  /\ (shieldTrue = 1 /\ ~shield_used) => (pc = "shield_on" \/ ~InLoop)
  /\ endpoint = "shield"
       => (shieldTrue = 0 /\ ~shield_used /\ now - start_time > SHIELD_AFTER)
  /\ dpc = "inflight" /\ endpoint = "shield" => sentAt - start_time > SHIELD_AFTER

\* a shield request that returned no result was repeated, and the repeated
\* request returned a result
C5_Witness == shield_used /\ shieldRequests >= 2

\* C6: a fire request is issued only when at least 2.0 s have passed since the
\* last successful fire, so two successful fires are at least 2.0 s apart.
C6_FireInterval ==
  /\ endpoint = "fire" => now - last_fire_time >= FIRE_INTERVAL
  /\ dpc = "inflight" /\ endpoint = "fire" => sentAt - last_fire_time >= FIRE_INTERVAL
  /\ fireGap = -1 \/ fireGap >= FIRE_INTERVAL

\* a second successful fire has happened, and a tick has skipped fire since
C6_Witness == fireGap >= FIRE_INTERVAL /\ pc = "move" /\ now - last_fire_time < FIRE_INTERVAL
                /\ now - last_fire_time > 0

\* C7: moves_in_a_row never exceeds 5; in the tick in which a successful
\* move brings it to 5 the random-rotation check is evaluated exactly once,
\* and at the end of that tick the count is 0.
C7_StreakBounded ==
  /\ moves_in_a_row <= 5
  /\ coinFlips <= 1
  /\ pc = "streak" => (reached5 /\ coinFlips = 0 /\ moves_in_a_row = 5)
  /\ (reached5 /\ pc # "streak") => coinFlips = 1
  /\ pc = "loop_sleep" /\ reached5 => moves_in_a_row = 0

\* a tick in which the fifth move succeeded has ended
C7_Witness == pc = "loop_sleep" /\ reached5 /\ coinFlips = 1 /\ moves_in_a_row = 0

\* C8: at the end of a tick whose move failed, moves_in_a_row is 0, whether
\* the corrective rotate succeeded or not.
C8_MoveFailureResets == (pc = "loop_sleep" /\ moveFailed) => moves_in_a_row = 0

\* a tick whose move failed has ended, its rotate having changed nothing
C8_Witness == pc = "loop_sleep" /\ moveFailed /\ ~direction_changed /\ moves_in_a_row = 0

\* C9: no move, rotate, fire, shield or unregister request is issued, and the
\* tick loop is not entered, before a register call has returned success.
C9_RegisterFirst ==
  /\ called \ {"register"} # {} => registered
  /\ endpoint \notin {"none", "register"} => registered
  /\ (InLoop \/ pc \in {"call_unregister", "done"}) => registered

\* a move request is in flight after a registration that succeeded at the
\* second attempt
C9_Witness == dpc = "inflight" /\ endpoint = "move" /\ registered /\ regCalls = 2

\* C10: when register fails at all 3 attempts the process ends after exactly
\* 3 register calls, main having slept 1 s after the first and the second
\* failure and not after the third, with no tick executed and no move, fire
\* or shield request issued.
C10_RegistrationExhausted ==
  /\ regCalls <= MAX_RETRIES /\ regSleeps <= MAX_RETRIES - 1
  /\ pc = "reg_sleep" => regSleeps = regCalls
  /\ pc = "exit" => /\ regCalls = MAX_RETRIES
                    /\ regSleeps = MAX_RETRIES - 1
                    /\ ~registered
                    /\ called = {"register"}
                    /\ moves_in_a_row = 0 /\ last_move_time = 0 /\ last_fire_time = 0

\* the process has ended after three failed registrations
C10_Witness == pc = "exit" /\ regCalls = 3

\* C11: once the tick loop has been left after a successful registration,
\* by an interrupt or otherwise, exactly one unregister call has been made,
\* the process ends when that call ends, whatever its result, and no other
\* request is issued after it.
C11_UnregisterOnce ==
  /\ unregCalls <= 1
  /\ (unregCalls = 1) = (registered /\ ~InLoop)
  /\ ("unregister" \in called) = (unregCalls = 1)
  /\ unregCalls = 1 => pc \in {"call_unregister", "done", "crashed", "killed"}
  /\ pc \in {"call_unregister", "done"} => unregCalls = 1
  /\ pc = "call_unregister" => ((InCall \/ dpc = "raise") /\ endpoint = "unregister")
  /\ (dpc = "inflight" /\ unregCalls = 1) => endpoint = "unregister"
  /\ pc \in {"done", "crashed", "killed"} => (dpc = "idle" /\ endpoint = "none")

\* the place of an endpoint in the order of a tick
Rank(ep) == CASE ep = "shield" -> 1
              [] ep = "fire" -> 2
              [] ep = "move" -> 3
              [] ep = "rotate" -> 4
              [] OTHER -> 0

\* C12: the dispatcher calls of a tick are issued in the order shield, fire,
\* move, rotate, each at most once (at most four calls, at most one rotate),
\* and a rotate is issued only once the tick has reached its move step.
C12_TickOrder ==
  /\ Len(tickCalls) <= 4
  /\ \A i \in 1..Len(tickCalls) : Rank(tickCalls[i]) >= 1
  /\ \A i, j \in 1..Len(tickCalls) : i < j => Rank(tickCalls[i]) < Rank(tickCalls[j])
  /\ (InLoop /\ InCall) => (tickCalls # <<>> /\ endpoint = Last(tickCalls))
  /\ (InLoop /\ \E i \in 1..Len(tickCalls) : tickCalls[i] = "rotate")
       => pc \in {"call_rotate_wall", "call_rotate_streak", "loop_sleep"}
  /\ pc \in {"step", "call_shield", "shield_on", "fire", "call_fire", "move"}
       => \A i \in 1..Len(tickCalls) : Rank(tickCalls[i]) < 3

\* a tick has issued all four calls
C12_Witness ==
  /\ tickCalls = <<"shield", "fire", "move", "rotate">>
  /\ pc = "call_rotate_wall" /\ dpc = "inflight"

\* C13: whenever rotate() returns True, whatever the JSON body of the 2xx
\* answer, direction_changed is True and moves_in_a_row is 0 on its return
\* (stated for the rotate of the `not moved` branch, after which step changes
\* neither).
C13_RotateTrueSetsFlag ==
  [][(pc = "call_rotate_wall" /\ dpc = "ret" /\ RotateResult(response)
        /\ pc' = "loop_sleep")
       => (direction_changed' /\ moves_in_a_row' = 0)]_vars

\* C14: a 2xx answer with a JSON body, whatever its content, makes the move
\* a success (the count is incremented, or reset by the streak check it
\* reaches 5 in, last_move_time is updated and no corrective rotate is
\* issued), and likewise makes register and fire succeed.
C14_JsonBodyIsSuccess ==
  [][/\ (pc = "call_move" /\ dpc = "ret" /\ Last(seen) = "ok" /\ pc' # "call_unregister")
          => /\ last_move_time' = now
             /\ \/ moves_in_a_row' = moves_in_a_row + 1
                \/ moves_in_a_row + 1 >= 5 /\ moves_in_a_row' = 0
             /\ pc' # "not_moved"
     /\ (pc = "call_register" /\ dpc = "ret" /\ Last(seen) = "ok" /\ pc' # "killed")
          => pc' = "step"
     /\ (pc = "call_fire" /\ dpc = "ret" /\ Last(seen) = "ok" /\ pc' # "call_unregister")
          => last_fire_time' = now]_vars

\* C15: shield_used only changes from False to True, it becomes True only
\* when the shield request of the running tick was answered 2xx, and once it
\* is True no shield call is made and no shield request is sent.
C15_ShieldUsedMonotonic ==
  [][/\ shield_used => shield_used'
     /\ (~shield_used /\ shield_used')
          => (pc = "shield_on" /\ Last(tickCalls) = "shield")
     /\ (pc # "shield_on" /\ pc' = "shield_on")
          => (pc = "call_shield" /\ dpc = "ret" /\ endpoint = "shield"
              /\ Last(seen) = "ok" /\ Last(tickCalls) = "shield")
     /\ shield_used' => endpoint' # "shield"
     /\ shield_used => shieldRequests' = shieldRequests]_vars

\* a tick that began more than 6 s after the start has passed its shield
\* step without a call, shield_used being True
C15_Witness ==
  /\ shield_used /\ pc = "fire" /\ tickCalls = <<>>
  /\ now - start_time > SHIELD_AFTER /\ shieldRequests >= 1

\* C16: no outcome of the shield, fire, move and rotate requests ends the
\* tick loop: every step returns to main, which sleeps 0.1 s and begins a
\* further step; the loop is left only by a KeyboardInterrupt.
C16_LoopNeverFatal ==
  [][/\ (InLoop /\ ~InLoop') => (~interrupted /\ interrupted'
                                   /\ pc' \in {"call_unregister", "killed"})
     /\ (pc \in {"call_rotate_wall", "call_rotate_streak"} /\ dpc = "ret" /\ ~interrupted')
          => pc' = "loop_sleep"
     /\ (pc = "call_move" /\ dpc = "ret" /\ ~interrupted')
          => pc' \in {"loop_sleep", "not_moved", "streak"}
     /\ (pc = "not_moved" /\ ~interrupted') => pc' = "call_rotate_wall"
     /\ (pc = "streak" /\ ~interrupted') => pc' \in {"loop_sleep", "call_rotate_streak"}
     /\ (pc # "loop_sleep" /\ pc' = "loop_sleep") => wake' = now + LOOP_DELAY
     /\ (pc = "loop_sleep" /\ ~interrupted') => (pc' = "step" /\ now' >= wake)]_vars

\* the three timestamps never decrease
TimestampsMonotonic ==
  /\ last_request_time' >= last_request_time
  /\ last_move_time' >= last_move_time
  /\ last_fire_time' >= last_fire_time

\* C17: the timestamps never decrease and each changes only on the success
\* of its own action: an attempt of a dispatcher call that yields no result
\* (it ends in the except clause) leaves last_request_time unchanged, so a
\* call that returns no result does; last_move_time changes only when a move
\* request has yielded a result and last_fire_time only when a fire request
\* has.
C17_NoResultKeepsTimestamp ==
  [][/\ TimestampsMonotonic
     /\ (dpc = "inflight" /\ Len(seen') = Len(seen) + 1 /\ Last(seen') # "ok")
          => last_request_time' = last_request_time
     /\ last_move_time' # last_move_time
          => (pc = "call_move" /\ dpc = "ret" /\ Last(seen) = "ok")
     /\ last_fire_time' # last_fire_time
          => (pc = "call_fire" /\ dpc = "ret" /\ Last(seen) = "ok")]_vars

\* C18: a corrective rotate is issued only after a move request of the same
\* tick was sent and came back without a result; a tick whose move is
\* skipped by the MOVE_DELAY cooldown issues no rotate and leaves
\* moves_in_a_row unchanged.
C18_WallRotateOnlyAfterFailedMove ==
  [][/\ (pc # "call_rotate_wall" /\ pc' = "call_rotate_wall") => pc = "not_moved"
     /\ (pc # "not_moved" /\ pc' = "not_moved")
          => (pc = "call_move" /\ dpc = "ret" /\ sent >= 1 /\ response = "None"
              /\ Last(tickCalls) = "move")
     /\ (pc = "move" /\ ~MoveReady(now, last_move_time) /\ ~interrupted')
          => (pc' = "loop_sleep" /\ tickCalls' = tickCalls
              /\ moves_in_a_row' = moves_in_a_row)]_vars

\* C19: at the start of every tick direction_changed is False.
C19_FlagClearAtTickStart == pc = "step" => ~direction_changed

\* C20: whenever step evaluates the streak condition with moves_in_a_row
\* at 5 or more, direction_changed is False; moves_in_a_row is at most 4 at
\* every tick boundary, and 0 whenever the flag is set.
C20_StreakCheckNotSuppressed ==
  /\ (pc = "call_move" /\ dpc = "ret" /\ Truthy(response) /\ moves_in_a_row + 1 >= 5)
       => (~direction_changed /\ StreakCheck(moves_in_a_row + 1, direction_changed))
  /\ pc = "streak" => ~direction_changed
  /\ pc \in {"step", "loop_sleep"} => moves_in_a_row <= 4
  /\ direction_changed => moves_in_a_row = 0

\* the fifth move in a row has succeeded and step is about to evaluate the
\* streak condition
C20_Witness ==
  /\ pc = "call_move" /\ dpc = "ret" /\ Truthy(response)
  /\ moves_in_a_row = 4 /\ ~direction_changed

====
